---- MODULE Spec2Model ----
(***************************************************************************)
(* A model of go-hotfix/assembly: the dwarfAssembly handle (image list,    *)
(* module table, global-symbol table, per-image type cache), the lazy      *)
(* build of the global table as run by concurrent callers, and the         *)
(* function lookup / dynamic call path (FindFuncType, CallFunc).           *)
(***************************************************************************)
EXTENDS Integers, Sequences, FiniteSets, TLC

\* ------------------------------------------------------------------ bounds
\* Cap on the length of binaryInfo.Images explored by the model (the code has
\* no cap of its own).
MaxImages == 3
\* Longest argument list handed to CallFunc.
MaxArgs == 3
\* Addresses are uint64 in the code; the model keeps the wrap-around of the
\* addition md.types + off in a scaled-down address space 0 .. AddrSpace-1.
AddrSpace == 32

\* The limit the image-count claim speaks of: the code defines none, so the
\* claim is stated for the largest limit the explored image lists can exceed.
MaxLibraries == MaxImages - 1

\* ------------------------------------------------- the process being inspected
\* Image files that can be mapped into the process: the executable and two
\* shared objects.  "p1" and "p3" are Go plugins (each has a runtime module
\* record and debug info); "p2" is a shared object without a Go runtime module.
Paths == {"exe", "p1", "p2", "p3"}
Plugins == {"p1", "p2"}

EmptyMap == [x \in {} |-> 0]

\* Type DIEs of each image's debug info: name and the value of the
\* go-runtime-type attribute (0: the entry carries no back-reference).
TypeDIEs(path) ==
    CASE path = "exe" -> { [name |-> "int",    off |-> 1],
                           [name |-> "string", off |-> 2],
                           [name |-> "[]int",  off |-> 3],
                           [name |-> "any",    off |-> 4],
                           [name |-> "S",      off |-> 5],
                           [name |-> "T",      off |-> 0],
                           [name |-> "U",      off |-> 0],
                           [name |-> "X",      off |-> 20],
                           [name |-> "W",      off |-> 30] }
      [] path = "p1"  -> { [name |-> "T",      off |-> 2],
                           [name |-> "int",    off |-> 1] }
      [] path = "p3"  -> { [name |-> "T",      off |-> 1] }
      [] OTHER        -> { [name |-> "V",      off |-> 0] }

\* Image.runtimeTypeToDIE of each image: runtime-type offset -> name of the
\* debug entry it points at.
RuntimeTypeToDIE(path) ==
    CASE path = "p1" -> { [k |-> 2, name |-> "T"], [k |-> 0, name |-> "U"],
                          [k |-> 20, name |-> "W"] }
      [] path = "p3" -> { [k |-> 1, name |-> "T"], [k |-> 3, name |-> "U"] }
      [] OTHER       -> {}

\* The runtime's own module list (runtime.moduledata): bounds of the type
\* table of every image that has one.
RuntimeModule(path) ==
    CASE path = "exe" -> [path |-> "exe", types |-> 8,  etypes |-> 16]
      [] path = "p1"  -> [path |-> "p1",  types |-> 16, etypes |-> 24]
      [] path = "p3"  -> [path |-> "p3",  types |-> 24, etypes |-> 32]
      [] OTHER        -> [path |-> path,  types |-> 0,  etypes |-> 0]
HasRuntimeModule(path) == path \in {"exe", "p1", "p3"}

\* The runtime type records living in memory: address -> (name, kind, address
\* of the element type for a slice).
RuntimeTypes ==
    (9  :> [name |-> "int",    kind |-> "int",       elem |-> 0]) @@
    (10 :> [name |-> "string", kind |-> "string",    elem |-> 0]) @@
    (11 :> [name |-> "[]int",  kind |-> "slice",     elem |-> 9]) @@
    (12 :> [name |-> "any",    kind |-> "interface", elem |-> 0]) @@
    (13 :> [name |-> "S",      kind |-> "struct",    elem |-> 0]) @@
    (18 :> [name |-> "T",      kind |-> "struct",    elem |-> 0]) @@
    (20 :> [name |-> "X",      kind |-> "struct",    elem |-> 0]) @@
    (25 :> [name |-> "T",      kind |-> "struct",    elem |-> 0]) @@
    (27 :> [name |-> "U",      kind |-> "struct",    elem |-> 0]) @@
    (30 :> [name |-> "W",      kind |-> "struct",    elem |-> 0])

\* ------------------------------------------------------------------- state
VARIABLES
    phase,       \* "new": NewDwarfAssembly has not loaded yet; "open": the
                 \* handle was returned; "failed": NewDwarfAssembly returned nil
    images,      \* binaryInfo.Images: sequence of [path, ok]
    modules,     \* da.modules: sequence of ModuleData (<<>> is nil)
    globals,     \* da.globals: [isnil, m] (a nil map, or name -> value)
    imageTypes,  \* da.imageTypes: image index -> (name -> address)
    closed,      \* history: Close has returned on this handle
    initLoads,   \* history: number of LoadBinaryInfo calls made
    lastLoad,    \* history: outcome of the last LoadImage
    pc,          \* per thread: position inside FindGlobal / loadGlobals
    tname,       \* per thread: the name being looked up
    ti,          \* per thread: loadGlobals' loop index i
    tret,        \* per thread: what its last FindGlobal returned
    call,        \* the last function-path call and its outcome
    mem,         \* the process's memory at the package variables' addresses
    wrote,       \* history: the last store a ForeachGlobal visitor made
    iter,        \* the last Foreach* call: the visitor's invocations
    ftype        \* the last FindType call, and the one before it

vars == << phase, images, modules, globals, imageTypes, closed, initLoads,
           lastLoad, pc, tname, ti, tret, call, mem, wrote, iter, ftype >>

Threads == {"t1", "t2"}

NilGlobals == [isnil |-> TRUE, m |-> EmptyMap]
NoRet == [err |-> "none", val |-> 0, afterClose |-> FALSE, clean |-> FALSE]
\* The zero function type and the record of "no call made".
NoType == [in |-> << >>, out |-> << >>, variadic |-> FALSE, panic |-> FALSE]
NoCall == [op |-> "none", rev |-> "", name |-> "", variadic |-> FALSE,
           args |-> << >>, err |-> "none", idx |-> 0, strs |-> << >>,
           called |-> FALSE, out |-> << >>, typ |-> NoType, entry |-> 0]
NoLoad == [err |-> "none", added |-> FALSE, initial |-> FALSE]
\* Addresses of the package variables, their initial contents, "no store
\* made" and "no iteration made".
VarAddrs == 1..4
ZeroMem == [a \in VarAddrs |-> 0]
NoWrite == [name |-> "", addr |-> 0, val |-> 0, nimg |-> 0]
NoIter == [op |-> "none", stop |-> 0, calls |-> 0, seen |-> {}, todo |-> {},
           running |-> FALSE]
\* "No FindType call made": the result of the last call (path: how the
\* address was obtained; fresh: the call created a per-image cache) and of
\* the call before it.
NoFindType == [op |-> "none", name |-> "", typ |-> 0, err |-> "none", path |-> "",
               fresh |-> FALSE, pname |-> "", ptyp |-> 0, perr |-> "none",
               pfresh |-> FALSE]

\* &dwarfAssembly{binaryInfo: proc.NewBinaryInfo(...)}: every field is zero.
Init ==
    /\ phase = "new"
    /\ images = << >>
    /\ modules = << >>
    /\ globals = NilGlobals
    /\ imageTypes = EmptyMap
    /\ closed = FALSE
    /\ initLoads = 0
    /\ lastLoad = NoLoad
    /\ pc = [t \in Threads |-> "idle"]
    /\ tname = [t \in Threads |-> ""]
    /\ ti = [t \in Threads |-> [i |-> 0, n |-> 0]]
    /\ tret = [t \in Threads |-> NoRet]
    /\ call = NoCall
    /\ mem = ZeroMem
    /\ wrote = NoWrite
    /\ iter = NoIter
    /\ ftype = NoFindType

\* ------------------------------------------------------- delve's BinaryInfo
Lookup(m, k) == IF k \in DOMAIN m THEN m[k] ELSE 0

HasPath(imgs, path) == \E i \in 1..Len(imgs) : imgs[i].path = path

\* bi.AddImage: an image already present is not added again; otherwise the
\* image is appended whether or not its debug info loads (a load error is
\* returned with the image left in bi.Images).
AddImage(imgs, path, loadOk) ==
    IF HasPath(imgs, path)
    THEN [images |-> imgs, err |-> "nil"]
    ELSE [images |-> Append(imgs, [path |-> path, ok |-> loadOk]),
          err    |-> IF loadOk THEN "nil" ELSE "load error"]

\* bi.LoadBinaryInfo: records the debug-info directories, then AddImage.
LoadBinaryInfo(imgs, path, loadOk) == AddImage(imgs, path, loadOk)

\* proc.LoadModuleData: one ModuleData per runtime module of the images whose
\* debug info is loaded.
RECURSIVE loadModuleData(_)
loadModuleData(imgs) ==
    IF imgs = << >> THEN << >>
    ELSE LET rest == loadModuleData(SubSeq(imgs, 1, Len(imgs) - 1))
             img  == imgs[Len(imgs)]
         IN IF img.ok /\ HasRuntimeModule(img.path)
            THEN Append(rest, RuntimeModule(img.path))
            ELSE rest

\* bi.imageToModuleData: the record of the module the image belongs to, nil
\* when the module table holds none.
imageToModuleData(imgs, i, mds) ==
    LET hits == {k \in 1..Len(mds) : mds[k].path = imgs[i].path}
    IN IF hits = {}
       THEN [isnil |-> TRUE, types |-> 0, etypes |-> 0]
       ELSE LET k == CHOOSE k \in hits : TRUE
            IN [isnil |-> FALSE, types |-> mds[k].types, etypes |-> mds[k].etypes]

\* bi.findType: bi.types maps a name to the first image that declared it.
\* Image indices are 1-based here (Go's index 0 is index 1).
findType(imgs, name) ==
    LET hits == {i \in 1..Len(imgs) :
                    imgs[i].ok /\ \E d \in TypeDIEs(imgs[i].path) : d.name = name}
    IN IF hits = {}
       THEN [err |-> "reader.ErrTypeNotFound", index |-> 0, off |-> 0]
       ELSE LET i == CHOOSE i \in hits : \A j \in hits : i <= j
                d == CHOOSE d \in TypeDIEs(imgs[i].path) : d.name = name
            IN [err |-> "nil", index |-> i, off |-> d.off]

\* ------------------------------------------------------------ type resolver
\* (a variant without the range test)
RuntimeTypeAddr_NoCheck(md, off) == (md.types + off) % AddrSpace

\* typeAddr := md.types + off (uint64, wraps); outside [types, etypes) the
\* raw offset is the address.
RuntimeTypeAddr(md, off) ==
    LET typeAddr == (md.types + off) % AddrSpace
    IN IF typeAddr < md.types \/ typeAddr >= md.etypes THEN off ELSE typeAddr

\* The name -> address cache findImageType builds for one image from its
\* runtimeTypeToDIE map (entries with key 0 are skipped).
BuildImageCache(path, md) ==
    LET es == {e \in RuntimeTypeToDIE(path) : e.k # 0}
    IN [n \in {e.name : e \in es} |->
            RuntimeTypeAddr(md, (CHOOSE e \in es : e.name = n).k)]

\* (a variant whose first use of an image fills the cache but answers 0)
findImageType_Drop(i, name, imgs, mds, its) ==
    IF i \in DOMAIN its
    THEN [addr |-> Lookup(its[i], name), its |-> its]
    ELSE [addr |-> 0,
          its |-> its @@ (i :> IF imageToModuleData(imgs, i, mds).isnil THEN EmptyMap
                               ELSE BuildImageCache(imgs[i].path,
                                        imageToModuleData(imgs, i, mds)))]

\* findImageType: the cache of image i is created on first use, and created
\* empty (and kept) when the image has no module data.
findImageType(i, name, imgs, mds, its) ==
    IF i \in DOMAIN its
    THEN [addr |-> Lookup(its[i], name), its |-> its]
    ELSE LET md == imageToModuleData(imgs, i, mds)
         IN IF md.isnil
            THEN [addr |-> 0, its |-> its @@ (i :> EmptyMap)]
            ELSE LET cache == BuildImageCache(imgs[i].path, md)
                 IN [addr |-> Lookup(cache, name), its |-> its @@ (i :> cache)]

\* The fallback loop of dwarfToRuntimeType over bi.Images, from image i on.
RECURSIVE scanImages(_, _, _, _, _)
\* One turn of that loop: r is what findImageType gave for image i.
scanImage(r, i, name, imgs, mds) ==
    IF r.addr # 0
    THEN [addr |-> r.addr, err |-> "nil", its |-> r.its]
    ELSE scanImages(i + 1, name, imgs, mds, r.its)

scanImages(i, name, imgs, mds, its) ==
    IF i > Len(imgs)
    THEN [addr |-> 0, err |-> "could not find runtime type", its |-> its]
    ELSE scanImage(findImageType(i, name, imgs, mds, its), i, name, imgs, mds)

\* dwarfToRuntimeType(typ, name): t is what findType returned.
dwarfToRuntimeType(t, name, imgs, mds, its) ==
    IF t.index > Len(imgs)
    THEN [addr |-> 0, err |-> "could not find image", its |-> its]
    ELSE IF t.off = 0
    THEN scanImages(2, name, imgs, mds, its)
    ELSE LET md == imageToModuleData(imgs, t.index, mds)
         IN IF md.isnil
            THEN [addr |-> 0, err |-> "could not find module data", its |-> its]
            ELSE [addr |-> RuntimeTypeAddr(md, t.off), err |-> "nil", its |-> its]

\* reflect.TypeOf of the resolved address: the type handle is the address
\* of the runtime type record.
TypeOfAddr(r) ==
    [typ |-> IF r.err = "nil" THEN r.addr ELSE 0, err |-> r.err, its |-> r.its]

\* FindType(name).
FindType(name, imgs, mds, its) ==
    LET t == findType(imgs, name)
    IN IF t.err # "nil"
       THEN [typ |-> 0, err |-> t.err, its |-> its]
       ELSE TypeOfAddr(dwarfToRuntimeType(t, name, imgs, mds, its))

\* How FindType comes by the address of a name: "direct" through the debug
\* entry's runtime-type offset, "scan" through the images' type maps, "" when
\* debug info does not know the name.
ResolutionPath(t) ==
    IF t.err # "nil" THEN "" ELSE IF t.off = 0 THEN "scan" ELSE "direct"

\* FindType(name) called on the handle: r is its outcome.
FindTypeReturns(name, r) ==
    /\ imageTypes' = r.its
    /\ ftype' = [op |-> "FindType", name |-> name, typ |-> r.typ, err |-> r.err,
                 path |-> ResolutionPath(findType(images, name)),
                 fresh |-> r.its # imageTypes,
                 pname |-> ftype.name, ptyp |-> ftype.typ, perr |-> ftype.err,
                 pfresh |-> ftype.fresh]

CallFindType(name) ==
    /\ phase = "open"
    /\ FindTypeReturns(name, FindType(name, images, modules, imageTypes))
    /\ UNCHANGED << phase, images, modules, globals, closed, initLoads, lastLoad,
                    pc, tname, ti, tret, call, mem, wrote, iter >>

\* ------------------------------------------------------------ image registry
\* (a variant that takes the initial-load branch on every call)
IsInitialLoad_Always(imgs) == TRUE

\* LoadImage's branch: the initial load is taken when no image is present.
IsInitialLoad(imgs) == Len(imgs) = 0

\* refreshModules: on success the module table is replaced and the global
\* table reset to nil; da.imageTypes is not touched.  mdOk: loadModuleData
\* succeeded.
refreshModules(imgs, mds, gl, mdOk) ==
    IF ~mdOk
    THEN [modules |-> mds, globals |-> gl, err |-> "module data error"]
    ELSE [modules |-> loadModuleData(imgs), globals |-> NilGlobals, err |-> "nil"]

\* LoadImage(path, entryPoint) as a function of the handle's fields.
LoadImageResult(path, loadOk, mdOk) ==
    LET initial == IsInitialLoad(images)
        a == IF initial THEN LoadBinaryInfo(images, path, loadOk)
                        ELSE AddImage(images, path, loadOk)
        r == refreshModules(a.images, modules, globals, mdOk)
    IN [images  |-> a.images,
        initial |-> initial,
        modules |-> IF a.err = "nil" THEN r.modules ELSE modules,
        globals |-> IF a.err = "nil" THEN r.globals ELSE globals,
        err     |-> IF a.err = "nil" THEN r.err ELSE a.err]

\* History: a result returned before the registry changed is dropped, and a
\* call in flight is marked as having overlapped the change.
Disturbed ==
    [t \in Threads |-> IF pc[t] = "idle" THEN NoRet
                       ELSE [tret[t] EXCEPT !.clean = FALSE]]
Forgotten ==
    [t \in Threads |-> IF pc[t] = "idle" THEN "" ELSE tname[t]]

ApplyLoad(r) ==
    /\ images' = r.images
    /\ modules' = r.modules
    /\ globals' = r.globals
    /\ initLoads' = IF r.initial THEN initLoads + 1 ELSE initLoads
    /\ lastLoad' = [err |-> r.err, added |-> Len(r.images) > Len(images),
                    initial |-> r.initial]
    /\ tret' = Disturbed
    /\ tname' = Forgotten
    /\ ftype' = NoFindType

\* NewDwarfAssembly: loads the executable; the handle is returned only when
\* LoadImage succeeded.
NewDwarfAssembly(loadOk, mdOk) ==
    /\ phase = "new"
    /\ LET r == LoadImageResult("exe", loadOk, mdOk)
       IN /\ ApplyLoad(r)
          /\ phase' = IF r.err = "nil" THEN "open" ELSE "failed"
    /\ UNCHANGED << imageTypes, closed, pc, ti, call,
                    mem, wrote, iter >>

\* LoadImage called on the handle.
LoadImage(path, loadOk, mdOk) ==
    /\ phase = "open"
    /\ Len(images) < MaxImages \/ HasPath(images, path)
    /\ ApplyLoad(LoadImageResult(path, loadOk, mdOk))
    /\ UNCHANGED << phase, imageTypes, closed, pc, ti, call,
                    mem, wrote, iter >>

\* Close: the three caches are dropped; bi.Close() closes the images' files
\* and leaves bi.Images in place.  Close racing a lookup is outside the
\* library's contract, so Close is taken with no call in flight.
Close ==
    /\ phase = "open"
    /\ \A t \in Threads : pc[t] = "idle"
    /\ modules' = << >>
    /\ globals' = NilGlobals
    /\ imageTypes' = EmptyMap
    /\ closed' = TRUE
    /\ tret' = Disturbed
    /\ tname' = Forgotten
    /\ ftype' = NoFindType
    /\ UNCHANGED << phase, images, initLoads, lastLoad, pc, ti, call,
                    mem, wrote, iter >>

\* ------------------------------------------------------------ symbol catalog
\* bi.packageVars contributed by each image: name, storage address and the
\* name of the declared type.
PackageVars(path) ==
    CASE path = "exe" -> << [name |-> "g1", addr |-> 1, typ |-> "int"],
                            [name |-> "g2", addr |-> 2, typ |-> "U"],
                            [name |-> "g3", addr |-> 3, typ |-> "T"] >>
      [] path = "p1"  -> << [name |-> "pv", addr |-> 4, typ |-> "int"] >>
      [] OTHER        -> << >>

RECURSIVE packageVars(_)
packageVars(imgs) ==
    IF imgs = << >> THEN << >>
    ELSE LET img == imgs[Len(imgs)]
         IN packageVars(SubSeq(imgs, 1, Len(imgs) - 1))
            \o (IF img.ok THEN PackageVars(img.path) ELSE << >>)

GlobalNames == {"g1", "g3"}

\* FindGlobal(name) entered by thread t.
FindGlobalCall(t, name) ==
    /\ phase = "open"
    /\ pc[t] = "idle"
    /\ pc' = [pc EXCEPT ![t] = "check"]
    /\ tname' = [tname EXCEPT ![t] = name]
    /\ tret' = [tret EXCEPT ![t] = [err |-> "none", val |-> 0,
                                    afterClose |-> closed, clean |-> TRUE]]
    /\ UNCHANGED << phase, images, modules, globals, imageTypes, closed,
                    initLoads, lastLoad, ti, call,
                    mem, wrote, iter, ftype >>

\* if nil == da.globals { da.loadGlobals() }
FindGlobalCheck(t) ==
    /\ phase = "open"
    /\ pc[t] = "check"
    /\ pc' = [pc EXCEPT ![t] = IF globals.isnil THEN "make" ELSE "lookup"]
    /\ UNCHANGED << phase, images, modules, globals, imageTypes, closed,
                    initLoads, lastLoad, tname, ti, tret, call,
                    mem, wrote, iter, ftype >>

\* loadGlobals: da.globals = make(map...); packageVars and its length are
\* read once, before the loop.
loadGlobalsMake(t) ==
    /\ phase = "open"
    /\ pc[t] = "make"
    /\ globals' = [isnil |-> FALSE, m |-> EmptyMap]
    /\ ti' = [ti EXCEPT ![t] = [i |-> 1, n |-> Len(images)]]
    /\ pc' = [pc EXCEPT ![t] = "loop"]
    /\ UNCHANGED << phase, images, modules, imageTypes, closed, initLoads,
                    lastLoad, tname, tret, call,
                    mem, wrote, iter, ftype >>

\* One iteration of loadGlobals' loop: the variable's type is resolved and
\* the value stored into da.globals (as it is at that moment); a variable
\* whose type does not resolve is skipped.  Storing into a nil map panics.
loadGlobalsStore(t, v, r) ==
    /\ imageTypes' = r.its
    /\ IF r.err # "nil"
       THEN /\ globals' = globals
            /\ pc' = pc
            /\ tret' = tret
            /\ ti' = [ti EXCEPT ![t].i = @ + 1]
       ELSE IF globals.isnil
       THEN /\ globals' = globals
            /\ pc' = [pc EXCEPT ![t] = "idle"]
            /\ tret' = [tret EXCEPT ![t].err = "panic: assignment to entry in nil map"]
            /\ ti' = [ti EXCEPT ![t] = [i |-> 0, n |-> 0]]
       ELSE /\ globals' = [globals EXCEPT !.m =
                    ((v.name :> [typ |-> r.typ, addr |-> v.addr]) @@ @)]
            /\ pc' = pc
            /\ tret' = tret
            /\ ti' = [ti EXCEPT ![t].i = @ + 1]

loadGlobalsIter(t) ==
    /\ phase = "open"
    /\ pc[t] = "loop"
    /\ ti[t].i <= Len(packageVars(SubSeq(images, 1, ti[t].n)))
    /\ loadGlobalsStore(t, packageVars(SubSeq(images, 1, ti[t].n))[ti[t].i],
            FindType(packageVars(SubSeq(images, 1, ti[t].n))[ti[t].i].typ,
                     images, modules, imageTypes))
    /\ UNCHANGED << phase, images, modules, closed, initLoads, lastLoad,
                    tname, call,
                    mem, wrote, iter, ftype >>

\* The loop of loadGlobals ends and FindGlobal goes on to its lookup.
loadGlobalsDone(t) ==
    /\ phase = "open"
    /\ pc[t] = "loop"
    /\ ti[t].i > Len(packageVars(SubSeq(images, 1, ti[t].n)))
    /\ pc' = [pc EXCEPT ![t] = "lookup"]
    /\ ti' = [ti EXCEPT ![t] = [i |-> 0, n |-> 0]]
    /\ UNCHANGED << phase, images, modules, globals, imageTypes, closed,
                    initLoads, lastLoad, tname, tret, call,
                    mem, wrote, iter, ftype >>

\* value, ok := da.globals[name]
FindGlobalLookup(t) ==
    /\ phase = "open"
    /\ pc[t] = "lookup"
    /\ pc' = [pc EXCEPT ![t] = "idle"]
    /\ tret' = [tret EXCEPT ![t] =
            IF tname[t] \in DOMAIN globals.m
            THEN [@ EXCEPT !.err = "nil", !.val = globals.m[tname[t]].addr]
            ELSE [@ EXCEPT !.err = "ErrNotFound"]]
    /\ UNCHANGED << phase, images, modules, globals, imageTypes, closed,
                    initLoads, lastLoad, tname, ti, call,
                    mem, wrote, iter, ftype >>

\* Two threads inside the unsynchronised map at once: the Go runtime may
\* stop the process ("fatal error: concurrent map read and map write" /
\* "concurrent map writes"); nothing of the process is left.
ConcurrentMapFatal(t) ==
    /\ phase = "open"
    /\ pc[t] \in {"loop", "lookup"}
    /\ \E u \in Threads \ {t} : pc[u] = "loop"
    /\ phase' = "crashed"
    /\ images' = << >>
    /\ modules' = << >>
    /\ globals' = NilGlobals
    /\ imageTypes' = EmptyMap
    /\ closed' = FALSE
    /\ initLoads' = 0
    /\ lastLoad' = NoLoad
    /\ pc' = [u \in Threads |-> "dead"]
    /\ tname' = [u \in Threads |-> ""]
    /\ ti' = [u \in Threads |-> [i |-> 0, n |-> 0]]
    /\ tret' = [u \in Threads |-> NoRet]
    /\ call' = NoCall
    /\ mem' = ZeroMem
    /\ wrote' = NoWrite
    /\ iter' = NoIter
    /\ ftype' = NoFindType

\* ------------------------------------------------------------ enumeration
\* The orders in which a range over a Go map with key set S can hand out its
\* keys: the language leaves the order open.
RECURSIVE MapRangeOrders(_)
MapRangeOrders(S) ==
    IF S = {} THEN { << >> }
    ELSE UNION { { << x >> \o o : o \in MapRangeOrders(S \ {x}) } : x \in S }

\* The visitor handed to a Foreach* call: it answers false ("stop") on its
\* stop-th invocation and true on every other one (stop = 0: always true);
\* n is the number of invocations made before this one.
VisitorContinues(stop, n) == n + 1 # stop

\* for _, x := range order { if !f(x) { break } }, from position i on.
RECURSIVE rangeVisit_NoBreak(_, _, _, _)
\* (a variant whose loop goes on after the visitor answered false)
rangeVisit_NoBreak(order, i, stop, visited) ==
    IF i > Len(order) THEN visited
    ELSE rangeVisit_NoBreak(order, i + 1, stop, Append(visited, order[i]))

RECURSIVE rangeVisit(_, _, _, _)
rangeVisit(order, i, stop, visited) ==
    IF i > Len(order) THEN visited
    ELSE IF ~VisitorContinues(stop, Len(visited)) THEN Append(visited, order[i])
    ELSE rangeVisit(order, i + 1, stop, Append(visited, order[i]))

\* loadGlobals run from its first line to its last by one caller: the loop
\* over packageVars from index i on, m being the map filled so far.
RECURSIVE loadGlobalsLoop(_, _, _, _, _, _)
\* (a variant in which a variable whose type does not resolve ends the build)
loadGlobalsPut_Abort(r, pvs, i, m, imgs, mds) ==
    IF r.err # "nil" THEN [m |-> m, its |-> r.its]
    ELSE loadGlobalsLoop(pvs, i + 1,
            (pvs[i].name :> [typ |-> r.typ, addr |-> pvs[i].addr]) @@ m,
            imgs, mds, r.its)

\* One turn of that loop: r is what FindType gave for variable i.
loadGlobalsPut(r, pvs, i, m, imgs, mds) ==
    loadGlobalsLoop(pvs, i + 1,
        IF r.err # "nil" THEN m
        ELSE (pvs[i].name :> [typ |-> r.typ, addr |-> pvs[i].addr]) @@ m,
        imgs, mds, r.its)

loadGlobalsLoop(pvs, i, m, imgs, mds, its) ==
    IF i > Len(pvs) THEN [m |-> m, its |-> its]
    ELSE loadGlobalsPut(FindType(pvs[i].typ, imgs, mds, its), pvs, i, m, imgs, mds)

loadGlobals(imgs, mds, its) ==
    loadGlobalsLoop(packageVars(imgs), 1, EmptyMap, imgs, mds, its)

\* The table ForeachGlobal ranges over: da.globals, built first when nil.
GlobalsForRange ==
    IF globals.isnil THEN loadGlobals(images, modules, imageTypes)
    ELSE [m |-> globals.m, its |-> imageTypes]

\* (a variant in which the visitor is handed a copy: its store reaches no
\* variable)
VisitorStores_Copy(m, visited, target, val) == mem

\* What a visitor that stores val into the variable named target leaves in
\* memory: the store goes through the reflect.Value it was handed, i.e. to
\* the address the table holds for that name.
VisitorStores(m, visited, target, val) ==
    IF \E j \in 1..Len(visited) : visited[j] = target
    THEN [mem EXCEPT ![m[target].addr] = val]
    ELSE mem

VisitorWrote(m, visited, target, val) ==
    IF \E j \in 1..Len(visited) : visited[j] = target
    THEN [name |-> target, addr |-> m[target].addr, val |-> val,
          nimg |-> Len(images)]
    ELSE wrote

\* The record of a Foreach* call that has returned: visited holds the names
\* its visitor was invoked with, in order.
Iterated(op, stop, visited) ==
    [op |-> op, stop |-> stop, calls |-> Len(visited),
     seen |-> {visited[j] : j \in 1..Len(visited)}, todo |-> {}, running |-> FALSE]

\* ForeachGlobal(fn): g is the table ranged over, visited the invocations of
\* fn made.
ForeachGlobalRun(g, visited, target, val, stop) ==
    /\ globals' = [isnil |-> FALSE, m |-> g.m]
    /\ imageTypes' = g.its
    /\ mem' = VisitorStores(g.m, visited, target, val)
    /\ wrote' = VisitorWrote(g.m, visited, target, val)
    /\ iter' = Iterated("ForeachGlobal", stop, visited)

ForeachGlobal(order, target, val, stop) ==
    /\ phase = "open"
    /\ \A t \in Threads : pc[t] = "idle"
    /\ iter.op = "none"
    /\ order \in MapRangeOrders(DOMAIN GlobalsForRange.m)
    /\ ForeachGlobalRun(GlobalsForRange, rangeVisit(order, 1, stop, << >>),
                        target, val, stop)
    /\ UNCHANGED << phase, images, modules, closed, initLoads, lastLoad,
                    pc, tname, ti, tret, call, ftype >>

\* The caller takes note that the Foreach* call returned.
IterReturn ==
    /\ iter.op # "none"
    /\ ~iter.running
    /\ iter' = NoIter
    /\ UNCHANGED << phase, images, modules, globals, imageTypes, closed,
                    initLoads, lastLoad, pc, tname, ti, tret, call, mem, wrote,
                    ftype >>

\* ------------------------------------------------------- debug-info types
\* A debug-info type descriptor: its kind, its own name and the descriptor
\* it wraps (typedef) or points to (ptr).
BaseT(n) == [kind |-> "base", name |-> n, inner |-> << >>]
StructT(n) == [kind |-> "struct", name |-> n, inner |-> << >>]
TypedefT(n, of) == [kind |-> "typedef", name |-> n, inner |-> << of >>]

\* resolveTypedef: typedef / qualifier / parametric wrappers are removed.
RECURSIVE resolveTypedef(_)
resolveTypedef(typ) ==
    IF typ.kind \in {"typedef", "qual", "parametric"}
    THEN resolveTypedef(typ.inner[1])
    ELSE typ

\* godwarfTypeName / dwarfTypeName: "*" + the pointee's name for a pointer,
\* the tag name for a struct or enum, the common name otherwise.
RECURSIVE godwarfTypeName(_)
godwarfTypeName(typ) ==
    IF typ.kind = "ptr" THEN "*" \o godwarfTypeName(typ.inner[1]) ELSE typ.name

\* --------------------------------------------------------------- functions
\* The source revisions of the function path: src/unnamed/part_000 and
\* src/assembly-funcs.go.
Revisions == {"part_000", "assembly-funcs.go"}

Param(n, t, r) == [name |-> n, typ |-> t, isret |-> r]

\* bi.Functions contributed by each image: name, entry address, the formal
\* parameters in declaration order, the code behind the entry, and whether
\* the source declares the last input as variadic (debug info does not say).
Functions(path) ==
    CASE path = "exe" ->
           << [name |-> "testAdd", entry |-> 101, code |-> "add", variadic |-> FALSE,
               params |-> << Param("a", BaseT("int"), FALSE),
                             Param("b", BaseT("int"), FALSE),
                             Param("~r0", BaseT("int"), TRUE) >>],
              [name |-> "testMax", entry |-> 102, code |-> "max", variadic |-> TRUE,
               params |-> << Param("a", BaseT("int"), FALSE),
                             Param("nums", BaseT("[]int"), FALSE),
                             Param("~r0", BaseT("int"), TRUE) >>],
              [name |-> "testLen", entry |-> 103, code |-> "len", variadic |-> FALSE,
               params |-> << Param("v", BaseT("any"), FALSE),
                             Param("s", BaseT("[]int"), FALSE),
                             Param("~r0", BaseT("int"), TRUE) >>],
              [name |-> "testNop", entry |-> 104, code |-> "nop", variadic |-> FALSE,
               params |-> << Param("~r0", TypedefT("S", StructT("S")), TRUE) >>],
              [name |-> "testU", entry |-> 105, code |-> "nop", variadic |-> FALSE,
               params |-> << Param("x", BaseT("U"), FALSE) >>],
              [name |-> "testInl", entry |-> 0, code |-> "nop", variadic |-> FALSE,
               params |-> << >>] >>
      [] path = "p1" ->
           << [name |-> "testAdd", entry |-> 201, code |-> "add", variadic |-> FALSE,
               params |-> << Param("a", BaseT("int"), FALSE),
                             Param("b", BaseT("int"), FALSE),
                             Param("~r0", BaseT("int"), TRUE) >>] >>
      [] OTHER -> << >>

RECURSIVE biFunctions(_)
biFunctions(imgs) ==
    IF imgs = << >> THEN << >>
    ELSE LET img == imgs[Len(imgs)]
         IN biFunctions(SubSeq(imgs, 1, Len(imgs) - 1))
            \o (IF img.ok THEN Functions(img.path) ELSE << >>)

\* bi.FindFunction(name): the matching functions, in bi.Functions order.
FindFunction(imgs, name) ==
    SelectSeq(biFunctions(imgs), LAMBDA f : f.name = name)

NoFunc == [name |-> "", entry |-> 0, code |-> "nop", variadic |-> FALSE,
           params |-> << >>]

\* (a variant that selects the first match)
findFunc_First(imgs, name) ==
    LET fns == FindFunction(imgs, name)
    IN IF fns # << >>
       THEN [f |-> fns[1], err |-> "nil"]
       ELSE [f |-> NoFunc, err |-> "ErrNotFound"]

\* findFunc: the last match, ErrNotFound when there is none.
findFunc(imgs, name) ==
    LET fns == FindFunction(imgs, name)
    IN IF fns # << >>
       THEN [f |-> fns[Len(fns)], err |-> "nil"]
       ELSE [f |-> NoFunc, err |-> "ErrNotFound"]

\* The name under which a revision resolves a parameter's type: part_000
\* canonicalises first, assembly-funcs.go names the type as declared.
ParamTypeName(rev, prm) ==
    IF rev = "part_000" THEN godwarfTypeName(resolveTypedef(prm.typ))
    ELSE godwarfTypeName(prm.typ)

\* The string a revision records next to each type: part_000 keeps the
\* parameter's name, assembly-funcs.go keeps the type's name.
ParamLabel(rev, prm) ==
    IF rev = "part_000" THEN prm.name ELSE ParamTypeName(rev, prm)

NoSig == [inTyps |-> << >>, outTyps |-> << >>, inNames |-> << >>,
          outNames |-> << >>, err |-> "nil", idx |-> 0, strs |-> << >>]

\* The error for parameter k (1-based) whose type FindType did not resolve:
\* part_000 formats the function's name, the parameter's index, its name and
\* its type; assembly-funcs.go the function's name and the type's name (idx
\* -1: the text holds no index).
SigError(rev, f, k) ==
    IF rev = "part_000"
    THEN [NoSig EXCEPT !.err = "resolve function arg failed", !.idx = k - 1,
                       !.strs = << f.name, f.params[k].name,
                                   godwarfTypeName(resolveTypedef(f.params[k].typ)) >>]
    ELSE [NoSig EXCEPT !.err = "get function arg types type err", !.idx = 0 - 1,
                       !.strs = << f.name, ParamTypeName(rev, f.params[k]) >>]

\* getFunctionArgTypes, the loop over the formal parameters from index k on,
\* sig being what the earlier parameters gave.  The first parameter whose type
\* FindType cannot resolve ends the derivation with an error.
RECURSIVE argTypesFrom(_, _, _, _, _, _, _)
\* (a variant that files every parameter, return slots too, as an input)
argType_AllInputs(r, rev, f, k, sig, imgs, mds) ==
    IF r.err # "nil"
    THEN [sig |-> SigError(rev, f, k), its |-> r.its]
    ELSE argTypesFrom(rev, f, k + 1,
            [sig EXCEPT !.inTyps = Append(@, r.typ),
                        !.inNames = Append(@, ParamLabel(rev, f.params[k]))],
            imgs, mds, r.its)

\* One turn of that loop: r is what FindType gave for parameter k.
argType(r, rev, f, k, sig, imgs, mds) ==
    IF r.err # "nil"
    THEN [sig |-> SigError(rev, f, k), its |-> r.its]
    ELSE argTypesFrom(rev, f, k + 1,
            IF f.params[k].isret
            THEN [sig EXCEPT !.outTyps = Append(@, r.typ),
                             !.outNames = Append(@, ParamLabel(rev, f.params[k]))]
            ELSE [sig EXCEPT !.inTyps = Append(@, r.typ),
                             !.inNames = Append(@, ParamLabel(rev, f.params[k]))],
            imgs, mds, r.its)

argTypesFrom(rev, f, k, sig, imgs, mds, its) ==
    IF k > Len(f.params)
    THEN [sig |-> sig, its |-> its]
    ELSE argType(FindType(ParamTypeName(rev, f.params[k]), imgs, mds, its),
                 rev, f, k, sig, imgs, mds)

getFunctionArgTypes(rev, f, imgs, mds, its) ==
    argTypesFrom(rev, f, 1, NoSig, imgs, mds, its)

\* ForeachFunc's loop over bi.Functions from position i on: an entry whose
\* Entry is 0 is passed over, the visitor is invoked on every other one until
\* it answers false.
RECURSIVE funcsVisit(_, _, _, _)
funcsVisit(fs, i, stop, visited) ==
    IF i > Len(fs) THEN visited
    ELSE IF fs[i].entry = 0 THEN funcsVisit(fs, i + 1, stop, visited)
    ELSE IF ~VisitorContinues(stop, Len(visited)) THEN Append(visited, fs[i].name)
    ELSE funcsVisit(fs, i + 1, stop, Append(visited, fs[i].name))

ForeachFunc(stop) ==
    /\ phase = "open"
    /\ \A t \in Threads : pc[t] = "idle"
    /\ iter.op = "none"
    /\ iter' = Iterated("ForeachFunc", stop,
                        funcsVisit(biFunctions(images), 1, stop, << >>))
    /\ UNCHANGED << phase, images, modules, globals, imageTypes, closed,
                    initLoads, lastLoad, pc, tname, ti, tret, call, mem, wrote,
                    ftype >>

\* bi.Types(): the names of the types the loaded debug info declares, in no
\* particular order (they are the keys of a map).
biTypes(imgs) ==
    UNION { {d.name : d \in TypeDIEs(imgs[i].path)} :
              i \in {j \in 1..Len(imgs) : imgs[j].ok} }

\* ForeachType(f): types, err := da.binaryInfo.Types().
ForeachTypeCall(stop) ==
    /\ phase = "open"
    /\ \A t \in Threads : pc[t] = "idle"
    /\ iter.op = "none"
    /\ iter' = [op |-> "ForeachType", stop |-> stop, calls |-> 0, seen |-> {},
                todo |-> biTypes(images), running |-> biTypes(images) # {}]
    /\ UNCHANGED << phase, images, modules, globals, imageTypes, closed,
                    initLoads, lastLoad, pc, tname, ti, tret, call, mem, wrote,
                    ftype >>

\* One turn of ForeachType's loop: the next name of the slice is handed to
\* the visitor; the loop ends when the visitor answers false or the slice is
\* used up.
ForeachTypeVisit(name) ==
    /\ iter.op = "ForeachType"
    /\ iter.running
    /\ name \in iter.todo
    /\ iter' = [iter EXCEPT !.calls = @ + 1,
                            !.seen = @ \cup {name},
                            !.todo = @ \ {name},
                            !.running = /\ VisitorContinues(iter.stop, iter.calls)
                                        /\ iter.todo # {name}]
    /\ UNCHANGED << phase, images, modules, globals, imageTypes, closed,
                    initLoads, lastLoad, pc, tname, ti, tret, call, mem, wrote,
                    ftype >>

\* ------------------------------------------------------------------ reflect
TypeKind(t) == IF t \in DOMAIN RuntimeTypes THEN RuntimeTypes[t].kind ELSE "invalid"
TypeString(t) == IF t \in DOMAIN RuntimeTypes THEN RuntimeTypes[t].name ELSE "?"

\* Type.AssignableTo: identical types, or any type to the empty interface.
AssignableTo(a, t) == a = t \/ TypeKind(t) = "interface"

\* Type.Elem of a slice type (0 stands for the panic on any other kind).
Elem(t) == IF TypeKind(t) = "slice" THEN RuntimeTypes[t].elem ELSE 0

\* reflect.FuncOf: panics when variadic is set and the last input is not a
\* slice (or there is no input).
FuncOf(inTyps, outTyps, variadic) ==
    IF variadic /\ (Len(inTyps) = 0 \/ TypeKind(inTyps[Len(inTyps)]) # "slice")
    THEN [NoType EXCEPT !.panic = TRUE]
    ELSE [in |-> inTyps, out |-> outTyps, variadic |-> variadic, panic |-> FALSE]

\* ----------------------------------------------------------- the target code
IntV(n) == [typ |-> 9, v |-> << n >>]
ArgValues == { IntV(1), [typ |-> 10, v |-> << 7 >>], [typ |-> 11, v |-> << 2 >>] }

Max2(a, b) == IF a >= b THEN a ELSE b
RECURSIVE MaxOf(_, _)
MaxOf(a, nums) == IF nums = << >> THEN a ELSE MaxOf(Max2(a, Head(nums)), Tail(nums))

\* What the compiled code behind an entry returns for the values it is
\* passed (a variadic tail arrives as one slice value).
RunCode(code, in) ==
    CASE code = "add" -> << IntV(in[1].v[1] + in[2].v[1]) >>
      [] code = "max" -> << IntV(MaxOf(in[1].v[1], in[2].v)) >>
      [] code = "len" -> << IntV(Len(in[2].v)) >>
      [] code = "nop" -> << [typ |-> 13, v |-> << >>] >>
      [] OTHER        -> << >>

CodeAt(imgs, entry) ==
    LET fs == biFunctions(imgs)
        k  == CHOOSE k \in 1..Len(fs) : fs[k].entry = entry
    IN fs[k].code

RECURSIVE Flatten(_)
Flatten(vals) == IF vals = << >> THEN << >> ELSE Head(vals).v \o Flatten(Tail(vals))

\* Value.Call on a callable of type ftyp bound to codePtr: the argument count
\* is checked against the type (a panic when it does not fit), a variadic
\* tail is packed into one slice, and the code at codePtr runs.
Call(ftyp, codePtr, args, imgs) ==
    LET n == Len(ftyp.in)
    IN IF ftyp.variadic /\ Len(args) < n - 1
       THEN [panic |-> "reflect: Call with too few input arguments",
             called |-> FALSE, out |-> << >>]
       ELSE IF ~ftyp.variadic /\ Len(args) < n
       THEN [panic |-> "reflect: Call with too few input arguments",
             called |-> FALSE, out |-> << >>]
       ELSE IF ~ftyp.variadic /\ Len(args) > n
       THEN [panic |-> "reflect: Call with too many input arguments",
             called |-> FALSE, out |-> << >>]
       ELSE LET packed == IF ftyp.variadic
                          THEN Append(SubSeq(args, 1, n - 1),
                                      [typ |-> ftyp.in[n],
                                       v |-> Flatten(SubSeq(args, n, Len(args)))])
                          ELSE args
            IN [panic |-> "", called |-> TRUE,
                out |-> RunCode(CodeAt(imgs, codePtr), packed)]

\* ------------------------------------------------------- invocation engine
\* (a variant of getInTyp that hands out the last input type itself, not its
\* element type, for the variadic tail)
getInTyp_NoElem(i, inTyps, inNames, variadic) ==
    LET n == Len(inTyps)
    IN IF n <= 0 THEN [typ |-> 0, name |-> ""]
       ELSE IF i < n - 1 THEN [typ |-> inTyps[i + 1], name |-> inNames[i + 1]]
       ELSE IF variadic THEN [typ |-> inTyps[n], name |-> inNames[n]]
       ELSE IF i < n THEN [typ |-> inTyps[i + 1], name |-> inNames[i + 1]]
       ELSE [typ |-> 0, name |-> ""]

\* getInTyp(i) of CallFunc, i counted from 0 as in the code; typ 0 is nil.
getInTyp(i, inTyps, inNames, variadic) ==
    LET n == Len(inTyps)
    IN IF n <= 0 THEN [typ |-> 0, name |-> ""]
       ELSE IF i < n - 1 THEN [typ |-> inTyps[i + 1], name |-> inNames[i + 1]]
       ELSE IF variadic THEN [typ |-> Elem(inTyps[n]), name |-> inNames[n]]
       ELSE IF i < n THEN [typ |-> inTyps[i + 1], name |-> inNames[i + 1]]
       ELSE [typ |-> 0, name |-> ""]

\* The text of the type-mismatch error: part_000 formats the index, inName,
\* the expected and the actual type; assembly-funcs.go the index and inName.
MismatchStrings(rev, inName, inTyp, argTyp) ==
    IF rev = "part_000"
    THEN << inName, TypeString(inTyp), TypeString(argTyp) >>
    ELSE << inName >>

\* The validation loop of CallFunc from argument i (0-based) on: the first
\* argument without an expected type or not assignable to it ends the call.
RECURSIVE validateArgs(_, _, _, _, _)
\* One turn of that loop: in is what getInTyp gave for argument i.
validateArg(in, rev, i, args, sig, variadic) ==
    IF in.typ = 0
    THEN [err |-> "len mismatch", idx |-> i, strs |-> << >>]
    ELSE IF ~AssignableTo(args[i + 1].typ, in.typ)
    THEN [err |-> "type mismatch", idx |-> i,
          strs |-> MismatchStrings(rev, in.name, in.typ, args[i + 1].typ)]
    ELSE validateArgs(rev, i + 1, args, sig, variadic)

validateArgs(rev, i, args, sig, variadic) ==
    IF i >= Len(args)
    THEN [err |-> "nil", idx |-> 0, strs |-> << >>]
    ELSE validateArg(getInTyp(i, sig.inTyps, sig.inNames, variadic),
                     rev, i, args, sig, variadic)

\* FindFuncPc(name): the entry address of the function findFunc selects.
FindFuncPcResult(fr, name) ==
    IF fr.err # "nil"
    THEN [NoCall EXCEPT !.op = "FindFuncPc", !.name = name, !.err = fr.err]
    ELSE [NoCall EXCEPT !.op = "FindFuncPc", !.name = name, !.err = "nil",
                        !.entry = fr.f.entry]

\* FindFunc(name, variadic): FindFuncPc, then FindFuncType, then the callable
\* of that type bound to that entry; t is what FindFuncType gave (it fails
\* with ErrNotFound exactly when FindFuncPc does).
FindFuncResult(t) ==
    [ret |-> [t.ret EXCEPT !.op = "FindFunc"], its |-> t.its]

\* (a variant that builds the function type without the variadic flag)
funcTypeOf_NotVariadic(g, base, variadic) ==
    IF g.sig.err # "nil"
    THEN [ret |-> [base EXCEPT !.err = g.sig.err, !.idx = g.sig.idx,
                               !.strs = g.sig.strs],
          its |-> g.its]
    ELSE [ret |-> [base EXCEPT !.err = "nil",
                       !.typ = FuncOf(g.sig.inTyps, g.sig.outTyps, FALSE)],
          its |-> g.its]

\* FindFuncType from the derived signature g on: the function type is built.
funcTypeOf(g, base, variadic) ==
    IF g.sig.err # "nil"
    THEN [ret |-> [base EXCEPT !.err = g.sig.err, !.idx = g.sig.idx,
                               !.strs = g.sig.strs],
          its |-> g.its]
    ELSE IF FuncOf(g.sig.inTyps, g.sig.outTyps, variadic).panic
    THEN [ret |-> [base EXCEPT !.err = "panic: reflect.FuncOf"], its |-> g.its]
    ELSE [ret |-> [base EXCEPT !.err = "nil",
                       !.typ = FuncOf(g.sig.inTyps, g.sig.outTyps, variadic)],
          its |-> g.its]

\* FindFuncType(name, variadic).
FindFuncTypeResult(rev, name, variadic, imgs, mds, its) ==
    LET fr == findFunc(imgs, name)
        base == [NoCall EXCEPT !.op = "FindFuncType", !.rev = rev, !.name = name,
                               !.variadic = variadic]
    IN IF fr.err # "nil"
       THEN [ret |-> [base EXCEPT !.err = fr.err], its |-> its]
       ELSE funcTypeOf(getFunctionArgTypes(rev, fr.f, imgs, mds, its),
                       [base EXCEPT !.entry = fr.f.entry], variadic)

\* (a variant that performs newFunc.Call(args) ahead of the validation loop)
callChecked_CallFirst(ftyp, v, c, base, its) ==
    IF ftyp.panic
    THEN [ret |-> [base EXCEPT !.err = "panic: reflect.FuncOf"], its |-> its]
    ELSE IF c.panic # ""
    THEN [ret |-> [base EXCEPT !.err = "panic: " \o c.panic, !.typ = ftyp],
          its |-> its]
    ELSE IF v.err # "nil"
    THEN [ret |-> [base EXCEPT !.err = v.err, !.idx = v.idx, !.strs = v.strs,
                               !.typ = ftyp, !.called = c.called],
          its |-> its]
    ELSE [ret |-> [base EXCEPT !.err = "nil", !.called = c.called, !.out = c.out,
                               !.typ = ftyp],
          its |-> its]

\* CallFunc once the function type ftyp is built: v is the outcome of the
\* validation loop, c that of newFunc.Call(args), which runs only when the
\* loop rejected nothing.
callChecked(ftyp, v, c, base, its) ==
    IF ftyp.panic
    THEN [ret |-> [base EXCEPT !.err = "panic: reflect.FuncOf"], its |-> its]
    ELSE IF v.err # "nil"
    THEN [ret |-> [base EXCEPT !.err = v.err, !.idx = v.idx, !.strs = v.strs,
                               !.typ = ftyp],
          its |-> its]
    ELSE IF c.panic # ""
    THEN [ret |-> [base EXCEPT !.err = "panic: " \o c.panic, !.typ = ftyp],
          its |-> its]
    ELSE [ret |-> [base EXCEPT !.err = "nil", !.called = c.called, !.out = c.out,
                               !.typ = ftyp],
          its |-> its]

\* CallFunc from the derived signature g on.
callWithSig(g, f, base, rev, variadic, args, imgs) ==
    IF g.sig.err # "nil"
    THEN [ret |-> [base EXCEPT !.err = g.sig.err, !.idx = g.sig.idx,
                               !.strs = g.sig.strs],
          its |-> g.its]
    ELSE callChecked(FuncOf(g.sig.inTyps, g.sig.outTyps, variadic),
                     validateArgs(rev, 0, args, g.sig, variadic),
                     Call(FuncOf(g.sig.inTyps, g.sig.outTyps, variadic),
                          f.entry, args, imgs),
                     base, g.its)

\* CallFunc(name, variadic, args).
CallFuncResult(rev, name, variadic, args, imgs, mds, its) ==
    LET fr == findFunc(imgs, name)
        base == [NoCall EXCEPT !.op = "CallFunc", !.rev = rev, !.name = name,
                               !.variadic = variadic, !.args = args]
    IN IF fr.err # "nil"
       THEN [ret |-> [base EXCEPT !.err = fr.err], its |-> its]
       ELSE callWithSig(getFunctionArgTypes(rev, fr.f, imgs, mds, its), fr.f,
                        [base EXCEPT !.entry = fr.f.entry], rev, variadic, args, imgs)

FuncNames == {"testAdd", "testMax", "testLen", "testNop", "testU", "missing"}
ArgLists == UNION { [1..k -> ArgValues] : k \in 0..MaxArgs }

\* The outcome r of a call is handed to the caller, with the type cache as
\* the call left it.
Returned(r) ==
    /\ call' = r.ret
    /\ imageTypes' = r.its

FindFuncPc(name) ==
    /\ phase = "open"
    /\ call.op = "none"
    /\ call' = FindFuncPcResult(findFunc(images, name), name)
    /\ UNCHANGED << phase, images, modules, globals, imageTypes, closed,
                    initLoads, lastLoad, pc, tname, ti, tret,
                    mem, wrote, iter, ftype >>

FindFuncType(rev, name, variadic) ==
    /\ phase = "open"
    /\ call.op = "none"
    /\ Returned(FindFuncTypeResult(rev, name, variadic, images, modules, imageTypes))
    /\ UNCHANGED << phase, images, modules, globals, closed, initLoads,
                    lastLoad, pc, tname, ti, tret,
                    mem, wrote, iter, ftype >>

FindFunc(rev, name, variadic) ==
    /\ phase = "open"
    /\ call.op = "none"
    /\ Returned(FindFuncResult(
            FindFuncTypeResult(rev, name, variadic, images, modules, imageTypes)))
    /\ UNCHANGED << phase, images, modules, globals, closed, initLoads,
                    lastLoad, pc, tname, ti, tret, mem, wrote, iter, ftype >>

CallFunc(rev, name, variadic, args) ==
    /\ phase = "open"
    /\ call.op = "none"
    /\ Returned(CallFuncResult(rev, name, variadic, args, images, modules, imageTypes))
    /\ UNCHANGED << phase, images, modules, globals, closed, initLoads,
                    lastLoad, pc, tname, ti, tret,
                    mem, wrote, iter, ftype >>

\* The caller takes the result of the call; the handle is idle again.
Return ==
    /\ call.op # "none"
    /\ call' = NoCall
    /\ UNCHANGED << phase, images, modules, globals, imageTypes, closed,
                    initLoads, lastLoad, pc, tname, ti, tret,
                    mem, wrote, iter, ftype >>

\* ------------------------------------------------------------ specification
\* Spec: one caller at a time.  Every operation of the handle runs to its end
\* before the next one starts (FindGlobal is run by thread "t1" alone).
FindGlobalSteps(t) ==
    \/ \E name \in GlobalNames : FindGlobalCall(t, name)
    \/ FindGlobalCheck(t)
    \/ loadGlobalsMake(t)
    \/ loadGlobalsIter(t)
    \/ loadGlobalsDone(t)
    \/ FindGlobalLookup(t)

Quiet == \A t \in Threads : pc[t] = "idle"

Next ==
    \/ \E loadOk \in BOOLEAN, mdOk \in BOOLEAN : NewDwarfAssembly(loadOk, mdOk)
    \/ \E path \in Plugins, loadOk \in BOOLEAN, mdOk \in BOOLEAN :
            Quiet /\ LoadImage(path, loadOk, mdOk)
    \/ Close
    \/ FindGlobalSteps("t1")

Spec == Init /\ [][Next]_vars

\* SpecConc: the embedding process calls the handle from two threads with no
\* synchronisation of its own; the plugin "p1" may be loaded at any moment.
ConcNext ==
    \/ NewDwarfAssembly(TRUE, TRUE)
    \/ LoadImage("p1", TRUE, TRUE)
    \/ \E t \in Threads : FindGlobalSteps(t)
    \/ \E t \in Threads : ConcurrentMapFatal(t)

SpecConc == Init /\ [][ConcNext]_vars

\* SpecCall: the function path.  One caller looks functions up and calls
\* them, on the executable alone or with plugins loaded.
CallNext ==
    \/ NewDwarfAssembly(TRUE, TRUE)
    \/ \E path \in Plugins : call.op = "none" /\ LoadImage(path, TRUE, TRUE)
    \/ \E name \in FuncNames : FindFuncPc(name)
    \/ \E rev \in Revisions, name \in FuncNames, variadic \in BOOLEAN :
            FindFuncType(rev, name, variadic)
    \/ \E rev \in Revisions, name \in FuncNames, variadic \in BOOLEAN :
            FindFunc(rev, name, variadic)
    \/ \E rev \in Revisions, name \in FuncNames, variadic \in BOOLEAN,
          args \in ArgLists : CallFunc(rev, name, variadic, args)
    \/ Return

SpecCall == Init /\ [][CallNext]_vars

\* SpecGlob: the global-symbol catalog used by one caller: visitors that
\* store into the variables they are handed, lookups, and loads and Close in
\* between.
GoPlugins == {"p1", "p3"}
StoreTargets == {"g1", "g3"}
StoreValues == {1, 2}
GlobNext ==
    \/ NewDwarfAssembly(TRUE, TRUE)
    \/ Quiet /\ iter.op = "none" /\ LoadImage("p1", TRUE, TRUE)
    \/ iter.op = "none" /\ Close
    \/ \E target \in StoreTargets, val \in StoreValues, stop \in 0..1 :
          \E order \in MapRangeOrders(DOMAIN GlobalsForRange.m) :
              ForeachGlobal(order, target, val, stop)
    \/ IterReturn
    \/ iter.op = "none" /\ FindGlobalSteps("t1")

SpecGlob == Init /\ [][GlobNext]_vars

\* SpecIter: the three enumerations run by one caller, with visitors that
\* stop at their first, at a later or at no invocation.
MaxStop == 2
IterNext ==
    \/ NewDwarfAssembly(TRUE, TRUE)
    \/ \E path \in GoPlugins : iter.op = "none" /\ LoadImage(path, TRUE, TRUE)
    \/ \E stop \in 0..MaxStop :
          \E order \in MapRangeOrders(DOMAIN GlobalsForRange.m) :
              ForeachGlobal(order, "", 0, stop)
    \/ \E stop \in 0..MaxStop : ForeachFunc(stop)
    \/ \E stop \in 0..MaxStop : ForeachTypeCall(stop)
    \/ \E name \in iter.todo : ForeachTypeVisit(name)
    \/ IterReturn

SpecIter == Init /\ [][IterNext]_vars

\* SpecType: the type resolver used by one caller, with the two plugins
\* loaded (successfully or not) in between, in either order.
TypeNames == {"int", "T", "U", "W", "X", "missing"}
TypeNext ==
    \/ NewDwarfAssembly(TRUE, TRUE)
    \/ \E path \in GoPlugins, loadOk \in BOOLEAN, mdOk \in BOOLEAN :
            LoadImage(path, loadOk, mdOk)
    \/ \E name \in TypeNames : CallFindType(name)

SpecType == Init /\ [][TypeNext]_vars

\* ------------------------------------------------------------------ claims
\* The table a complete run of loadGlobals produces for the present images:
\* the names of the package variables whose declared type resolves.
CompletedTable ==
    LET pvs == packageVars(images)
    IN {pvs[k].name : k \in {j \in 1..Len(pvs) :
            FindType(pvs[j].typ, images, modules, imageTypes).err = "nil"}}

\* C1: a successful LoadImage that adds an image invalidates all three
\* caches together: the module table is recomputed, the global table is
\* reset to unbuilt, and no per-image type cache entry survives the load.
C1_AllCachesInvalidated ==
    [][ (lastLoad' # lastLoad \/ images' # images)
        /\ lastLoad'.err = "nil" /\ Len(images') > Len(images)
          => /\ modules' = loadModuleData(images')
             /\ globals'.isnil
             /\ imageTypes' = EmptyMap ]_vars

\* C2: the lazy build of the global table is a critical section: a lookup
\* that did not overlap a LoadImage never reports NotFound for a name that
\* the completed table holds.
C2_NoPartialTable ==
    \A t \in Threads :
        (pc[t] = "idle" /\ tret[t].clean /\ tret[t].err = "ErrNotFound")
            => tname[t] \notin CompletedTable

\* C3: a FindGlobal started after Close has returned fails with a
\* Closed/NotSupported error, returns no value and rebuilds no cache.
C3_ClosedHandleFails ==
    \A t \in Threads :
        (pc[t] = "idle" /\ tret[t].afterClose /\ tret[t].err # "none")
            => /\ tret[t].err \in {"ErrClosed", "ErrNotSupport"}
               /\ globals.isnil

\* C4 (as stated): a LoadImage requested while the registry already holds an
\* image returns an error and loads nothing.
C4_LoadWithImagePresentFails ==
    (lastLoad.err # "none" /\ ~lastLoad.initial)
        => (lastLoad.err # "nil" /\ ~lastLoad.added)

\* C4 (amended): the initial load (LoadBinaryInfo) is performed exactly once
\* on a handle, by the load that finds the registry empty; a LoadImage on a
\* registry that holds an image never repeats it (it is an additional load).
C4_InitialLoadOnce ==
    /\ initLoads <= 1
    /\ phase = "open" => initLoads = 1
    /\ lastLoad.initial => Len(images) <= 1

\* C4 witness: a LoadImage on a registry holding an image has succeeded and
\* added a second image, the initial load having run once.
C4_Witness ==
    /\ phase = "open" /\ initLoads = 1
    /\ lastLoad.err = "nil" /\ ~lastLoad.initial /\ lastLoad.added
    /\ Len(images) = 2

\* C5: the number of loaded images never exceeds the maximum (a load that
\* would exceed it fails with ErrTooManyLibraries).
C5_ImageCountBounded ==
    /\ Len(images) <= MaxLibraries
    /\ (lastLoad.err # "none" /\ Len(images) = MaxLibraries /\ ~lastLoad.added
        /\ lastLoad.err # "nil") => lastLoad.err = "ErrTooManyLibraries"

\* ------------------------------------------------- claims: the function path
\* The function the last call named, and its signature as the call's revision
\* derives it.
CalledFunc == findFunc(images, call.name)
CalledSig ==
    getFunctionArgTypes(call.rev, CalledFunc.f, images, modules, imageTypes).sig
SigDerived == CalledFunc.err = "nil" /\ CalledSig.err = "nil"

\* The expected type of argument i (0-based) as the claim words it, n being
\* the number of input types; 0 when the claim names none.
ExpectedType(inTyps, variadic, i) ==
    LET n == Len(inTyps)
    IN IF n >= 1 /\ i < n - 1 THEN inTyps[i + 1]
       ELSE IF n >= 1 /\ variadic /\ i >= n - 1 THEN Elem(inTyps[n])
       ELSE IF n >= 1 /\ ~variadic /\ i = n - 1 THEN inTyps[n]
       ELSE 0

ArgFits(i) ==
    /\ ExpectedType(CalledSig.inTyps, call.variadic, i) # 0
    /\ AssignableTo(call.args[i + 1].typ,
                    ExpectedType(CalledSig.inTyps, call.variadic, i))

\* C6: CallFunc checks argument i against inputTypes[i] (i < n-1), the element
\* type of inputTypes[n-1] (variadic, i >= n-1) or inputTypes[n-1] (not
\* variadic, i = n-1); the target is called only if every supplied argument is
\* assignable to its expected type, and a rejection names the first argument
\* that is not.
C6_ArgsCheckedAgainstExpected ==
    (call.op = "CallFunc" /\ SigDerived) =>
        /\ call.called => \A i \in 0..(Len(call.args) - 1) : ArgFits(i)
        /\ call.err = "type mismatch" =>
              /\ ExpectedType(CalledSig.inTyps, call.variadic, call.idx) # 0
              /\ ~ArgFits(call.idx)
              /\ \A j \in 0..(call.idx - 1) : ArgFits(j)
        /\ call.err = "len mismatch" =>
              /\ ExpectedType(CalledSig.inTyps, call.variadic, call.idx) = 0
              /\ \A j \in 0..(call.idx - 1) : ArgFits(j)

\* C6 witness: a variadic call with two arguments in the variadic tail was
\* checked and performed.
C6_Witness ==
    /\ call.op = "CallFunc" /\ call.variadic /\ call.called
    /\ Len(call.args) = Len(CalledSig.inTyps) + 1

\* C7: for a non-variadic signature with n inputs, CallFunc with n-1 and with
\* n+1 (otherwise fitting) arguments returns a length-mismatch error naming
\* the offending index, and the target is not called.
C7_WrongCountIsLenMismatch ==
    (/\ call.op = "CallFunc" /\ SigDerived /\ ~call.variadic
     /\ Len(CalledSig.inTyps) >= 1
     /\ Len(call.args) \in {Len(CalledSig.inTyps) - 1, Len(CalledSig.inTyps) + 1}
     /\ \A i \in 0..(Len(call.args) - 1) :
            i < Len(CalledSig.inTyps) => ArgFits(i))
        => /\ call.err = "len mismatch"
           /\ ~call.called
           /\ Len(call.args) > Len(CalledSig.inTyps)
                 => call.idx = Len(CalledSig.inTyps)

\* The input parameters of a function, in declaration order.
InputParams(f) == SelectSeq(f.params, LAMBDA prm : ~prm.isret)
OutputParams(f) == SelectSeq(f.params, LAMBDA prm : prm.isret)

\* The input parameter argument i (0-based) is matched to.
ParamOfArg(f, i) ==
    InputParams(f)[IF i + 1 < Len(InputParams(f)) THEN i + 1 ELSE Len(InputParams(f))]

\* C8: a type-mismatch error carries the index, the parameter's name, the
\* expected type name and the actual type name of the rejected argument.
C8_MismatchReport ==
    (call.op = "CallFunc" /\ call.err = "type mismatch") =>
        call.strs = << ParamOfArg(CalledFunc.f, call.idx).name,
                       TypeString(ExpectedType(CalledSig.inTyps, call.variadic, call.idx)),
                       TypeString(call.args[call.idx + 1].typ) >>

\* C9: for every argument list that passes CallFunc's validation,
\* CallFunc(name, false, args) returns the results of the function itself on
\* those arguments.
C9_CallEqualsDirect ==
    (/\ call.op = "CallFunc" /\ SigDerived /\ ~call.variadic
     /\ validateArgs(call.rev, 0, call.args, CalledSig, FALSE).err = "nil")
        => /\ call.err = "nil"
           /\ call.called
           /\ call.out = RunCode(CalledFunc.f.code, call.args)

\* The runtime type a declared type name denotes, and a function's own
\* declared type.
RuntimeTypeOf(name) == CHOOSE a \in DOMAIN RuntimeTypes : RuntimeTypes[a].name = name
DeclaredTypes(prms) ==
    [k \in 1..Len(prms) |-> RuntimeTypeOf(godwarfTypeName(prms[k].typ))]
DeclaredFuncType(f) ==
    [in |-> DeclaredTypes(InputParams(f)), out |-> DeclaredTypes(OutputParams(f)),
     variadic |-> f.variadic, panic |-> FALSE]

\* What both statements of C10 share: the parameter count is that of the
\* non-return parameters, the last parameter is a slice of the trailing
\* parameter's element type and marked variadic, the results are the return
\* parameters in order.
VariadicShape ==
    /\ Len(call.typ.in) = Len(InputParams(CalledFunc.f))
    /\ Len(call.typ.in) >= 1
    /\ call.typ.variadic
    /\ TypeKind(call.typ.in[Len(call.typ.in)]) = "slice"
    /\ Elem(call.typ.in[Len(call.typ.in)])
         = Elem(DeclaredTypes(InputParams(CalledFunc.f))[Len(call.typ.in)])
    /\ \A k \in 1..(Len(call.typ.in) - 1) :
         call.typ.in[k] = DeclaredTypes(InputParams(CalledFunc.f))[k]
    /\ call.typ.out = DeclaredTypes(OutputParams(CalledFunc.f))

\* C10 (as stated): the type FindFuncType(name, true) returns has that shape
\* and so equals the function's own declared type.
C10_VariadicTypeIsDeclaredType ==
    (call.op = "FindFuncType" /\ call.variadic /\ call.err = "nil") =>
        /\ VariadicShape
        /\ call.typ = DeclaredFuncType(CalledFunc.f)

\* C10 (amended): the type FindFuncType(name, true) returns has that shape;
\* it equals the function's own declared type when the function is declared
\* variadic.
C10_VariadicType ==
    (call.op = "FindFuncType" /\ call.variadic /\ call.err = "nil") =>
        /\ VariadicShape
        /\ CalledFunc.f.variadic => call.typ = DeclaredFuncType(CalledFunc.f)

\* C10 witness: FindFuncType("testMax", true) has returned a type.
C10_Witness ==
    /\ call.op = "FindFuncType" /\ call.variadic /\ call.err = "nil"
    /\ call.name = "testMax"

\* ------------------------------------------------- claims: lookups
\* The positions in bi.Functions of the debug entries named as the last call
\* named its function.
Matches == {k \in 1..Len(biFunctions(images)) : biFunctions(images)[k].name = call.name}
LastMatch == CHOOSE k \in Matches : \A j \in Matches : j <= k

\* C11: when several debug entries share the name, every lookup by name
\* (FindFuncPc, FindFuncType, CallFunc) selects the last one in enumeration
\* order; the selection is determined by the image set and the name alone, so
\* repeated calls agree; ErrNotFound is returned exactly when nothing matches.
C11_LastMatchSelected ==
    (call.op \in {"FindFuncPc", "FindFuncType", "CallFunc"}) =>
        /\ (call.err = "ErrNotFound") <=> (Matches = {})
        /\ Matches # {} => call.entry = biFunctions(images)[LastMatch].entry

\* C11 witness: two entries named testAdd are loaded and FindFuncPc returned
\* the entry of the plugin's, the later one.
C11_Witness ==
    /\ call.op = "FindFuncPc" /\ call.name = "testAdd"
    /\ Cardinality(Matches) = 2
    /\ call.entry = 201

\* ------------------------------------------------- claims: the symbol catalog
\* C12: the value a ForeachGlobal visitor is handed and the value FindGlobal
\* returns for the same name refer to the same storage: once the visitor has
\* stored a new value, a FindGlobal for that name (on the open handle, the
\* table rebuilt in between or not) succeeds and reads that value.
C12_SameBackingStorage ==
    \A t \in Threads :
        (/\ pc[t] = "idle" /\ tret[t].err # "none" /\ ~tret[t].afterClose
         /\ wrote.name = tname[t])
            => /\ tret[t].err = "nil"
               /\ tret[t].val = wrote.addr
               /\ mem[tret[t].val] = wrote.val

\* C12 witness: the visitor stored into g1 while one image was loaded, a
\* plugin was loaded (the table reset), and FindGlobal("g1") then returned the
\* value holding the visitor's store.
C12_Witness ==
    /\ wrote.name = "g1" /\ wrote.nimg = 1 /\ wrote.val = 2
    /\ Len(images) = 2
    /\ pc["t1"] = "idle" /\ tname["t1"] = "g1" /\ tret["t1"].err = "nil"
    /\ mem[tret["t1"].val] = 2

\* ------------------------------------------------- claims: the type resolver
\* C13: with the image set unchanged, two consecutive FindType calls for the
\* same name return the identical type handle or both fail, whether or not
\* the first of them created a per-image type cache.
C13_FindTypeIdempotent ==
    (ftype.op = "FindType" /\ ftype.perr # "none" /\ ftype.pname = ftype.name)
        => /\ ftype.err = ftype.perr
           /\ ftype.typ = ftype.ptyp

\* C13 witness: FindType("T") was called twice in a row with a plugin loaded;
\* the first call created the plugin's type cache, the second was served from
\* it, and both returned the same handle.
C13_Witness ==
    /\ ftype.op = "FindType" /\ ftype.name = "T" /\ ftype.pname = "T"
    /\ ftype.pfresh /\ ~ftype.fresh
    /\ ftype.err = "nil" /\ ftype.typ = ftype.ptyp /\ ftype.typ # 0

\* C14: FindType fails with ErrNotFound in every case where no type address
\* is resolved: the name is absent from debug info, or its entry has no
\* runtime-type offset and no secondary image's type map holds the name.
C14_FailsWithNotFound ==
    (ftype.op = "FindType" /\ ftype.err # "nil") => ftype.err = "ErrNotFound"

\* ------------------------------------------------- claims: enumeration
\* The entries the last Foreach* call enumerates: the keys of the global
\* table, the functions with a non-zero entry address, the declared type
\* names.
EnumNames ==
    CASE iter.op = "ForeachGlobal" -> DOMAIN globals.m
      [] iter.op = "ForeachFunc" ->
            {biFunctions(images)[k].name :
                k \in {j \in 1..Len(biFunctions(images)) : biFunctions(images)[j].entry # 0}}
      [] OTHER -> biTypes(images)
EnumCount ==
    IF iter.op = "ForeachFunc"
    THEN Cardinality({j \in 1..Len(biFunctions(images)) : biFunctions(images)[j].entry # 0})
    ELSE Cardinality(EnumNames)

\* C15: for ForeachGlobal, ForeachFunc and ForeachType alike, once the
\* visitor has answered false it is not invoked again and the operation
\* returns; a visitor that always answers true is invoked once per
\* enumerated entry.
C15_EarlyTermination ==
    (iter.op # "none") =>
        /\ iter.calls <= EnumCount
        /\ iter.running => (iter.stop = 0 \/ iter.calls < iter.stop)
        /\ (~iter.running /\ iter.stop \in 1..EnumCount) => iter.calls = iter.stop
        /\ (~iter.running /\ iter.stop \notin 1..EnumCount) =>
              (iter.calls = EnumCount /\ iter.seen = EnumNames)

\* C15 witness: ForeachGlobal over a table of at least two variables has
\* returned after the one invocation at which its visitor answered false.
C15_Witness ==
    /\ iter.op = "ForeachGlobal" /\ ~iter.running
    /\ iter.stop = 1 /\ iter.calls = 1
    /\ Cardinality(DOMAIN globals.m) >= 2

\* The address the claim prescribes for offset off in a module whose type
\* table is [types, etypes): the sum, taken in the integers, when it lies in
\* the table, the raw offset otherwise.
PrescribedAddr(md, off) ==
    IF md.types <= md.types + off /\ md.types + off < md.etypes
    THEN md.types + off
    ELSE off

\* C16: a non-zero runtime-type offset off resolves to typesBase + off when
\* that sum lies in [typesBase, typesEnd) and to the raw off otherwise, also
\* when the addition wraps around; the per-image type maps hold addresses
\* computed the same way.
C16_OffsetToAddress ==
    /\ (ftype.op = "FindType" /\ ftype.path = "direct" /\ ftype.err = "nil") =>
          ftype.typ = PrescribedAddr(
                          RuntimeModule(images[findType(images, ftype.name).index].path),
                          findType(images, ftype.name).off)
    /\ \A i \in DOMAIN imageTypes :
          \A n \in DOMAIN imageTypes[i] :
              \E e \in RuntimeTypeToDIE(images[i].path) :
                  /\ e.name = n /\ e.k # 0
                  /\ imageTypes[i][n] = PrescribedAddr(RuntimeModule(images[i].path), e.k)

\* C16 witness: FindType("W") resolved an offset whose sum with the type
\* table's base wraps around, and a plugin's type map was built holding a
\* wrapping entry too.
C16_Witness ==
    /\ ftype.op = "FindType" /\ ftype.name = "W" /\ ftype.path = "direct"
    /\ ftype.err = "nil" /\ ftype.typ = 30
    /\ 8 + 30 >= AddrSpace
    /\ \E i \in DOMAIN imageTypes : "W" \in DOMAIN imageTypes[i]

\* Image i's own type map (runtimeTypeToDIE) holds the name under a non-zero
\* runtime-type offset.
TypeMapHolds(i, name) ==
    /\ images[i].ok
    /\ \E e \in RuntimeTypeToDIE(images[i].path) : e.name = name /\ e.k # 0
TypeMapAddr(i, name) ==
    PrescribedAddr(RuntimeModule(images[i].path),
        (CHOOSE e \in RuntimeTypeToDIE(images[i].path) : e.name = name /\ e.k # 0).k)
SecondaryHolders(name) == {i \in 2..Len(images) : TypeMapHolds(i, name)}

\* C17: when the debug entry has no (or a zero) runtime-type offset, the
\* resolution scans the images in list order from the second one on and
\* returns the address from the first image whose type map holds the name
\* (the module table being that of the loaded images); the primary image's
\* type map is never consulted.
C17_FallbackScan ==
    /\ 1 \notin DOMAIN imageTypes
    /\ (/\ ftype.op = "FindType" /\ ftype.path = "scan"
        /\ modules = loadModuleData(images)
        /\ SecondaryHolders(ftype.name) # {})
          => /\ ftype.err = "nil"
             /\ ftype.typ = TypeMapAddr(
                    CHOOSE i \in SecondaryHolders(ftype.name) :
                        \A j \in SecondaryHolders(ftype.name) : i <= j,
                    ftype.name)

\* C18: the table loadGlobals builds holds exactly the package variables
\* whose declared type resolves; a variable whose type does not resolve is
\* left out without ending the build, and every other variable is found by
\* FindGlobal.
C18_TableHoldsResolvable ==
    /\ (~globals.isnil /\ \A t \in Threads : pc[t] = "idle") =>
          DOMAIN globals.m = CompletedTable
    /\ \A t \in Threads :
          (pc[t] = "idle" /\ tret[t].err # "none") =>
              ((tret[t].err = "nil") <=> (tname[t] \in CompletedTable))

\* C18 witness: with the plugin loaded the table was built; it lacks g2,
\* whose type does not resolve, holds the variables declared after g2, and
\* FindGlobal("g3") returned a value.
C18_Witness ==
    /\ ~globals.isnil /\ DOMAIN globals.m = {"g1", "g3", "pv"}
    /\ \E k \in 1..Len(packageVars(images)) : packageVars(images)[k].name = "g2"
    /\ pc["t1"] = "idle" /\ tname["t1"] = "g3" /\ tret["t1"].err = "nil"

\* ------------------------------------------------- claims: signatures
\* Position k of a type list and of its name list describe the k-th
\* parameter of prms: its declared type, and its own name or the name of its
\* type (the revisions differ in which of the two they record).
AlignedWith(typs, names, prms) ==
    /\ Len(typs) = Len(prms)
    /\ Len(names) = Len(prms)
    /\ \A k \in 1..Len(prms) :
          /\ typs[k] = DeclaredTypes(prms)[k]
          /\ names[k] \in {prms[k].name, godwarfTypeName(prms[k].typ)}

\* C19: getFunctionArgTypes partitions the formal parameters by the
\* return-slot flag: the input lists hold exactly the non-return parameters
\* and the output lists exactly the return parameters, each in declaration
\* order, names index-aligned with types.
C19_ParametersPartitioned ==
    (call.op \in {"FindFuncType", "CallFunc"} /\ SigDerived) =>
        /\ AlignedWith(CalledSig.inTyps, CalledSig.inNames, InputParams(CalledFunc.f))
        /\ AlignedWith(CalledSig.outTyps, CalledSig.outNames, OutputParams(CalledFunc.f))
        /\ (call.op = "FindFuncType" /\ call.err = "nil") =>
              (call.typ.in = CalledSig.inTyps /\ call.typ.out = CalledSig.outTyps)

\* C19 witness: the signature of testLen (two inputs of different types, one
\* result) was derived and FindFuncType returned the type built from it.
C19_Witness ==
    /\ call.op = "FindFuncType" /\ call.name = "testLen" /\ call.err = "nil"
    /\ ~call.variadic
    /\ call.typ.in = << 12, 11 >> /\ call.typ.out = << 9 >>

\* The formal parameters of the function last named whose type FindType does
\* not resolve (by the name the call's revision looks up).
UnresolvedParams ==
    {k \in 1..Len(CalledFunc.f.params) :
        FindType(ParamTypeName(call.rev, CalledFunc.f.params[k]),
                 images, modules, imageTypes).err # "nil"}
FirstUnresolved == CHOOSE k \in UnresolvedParams : \A j \in UnresolvedParams : k <= j
StringsOf(strs) == {strs[j] : j \in 1..Len(strs)}

\* C20: when the type of any one formal parameter cannot be resolved,
\* FindFuncType, FindFunc and CallFunc return an error that names the
\* function and the offending parameter, return no partial type or callable,
\* and CallFunc does not call the target.
C20_UnresolvedParameterFails ==
    (/\ call.op \in {"FindFuncType", "FindFunc", "CallFunc"}
     /\ CalledFunc.err = "nil" /\ UnresolvedParams # {})
        => /\ call.err \in {"resolve function arg failed",
                           "get function arg types type err"}
           /\ call.typ = NoType /\ ~call.called /\ call.out = << >>
           /\ CalledFunc.f.name \in StringsOf(call.strs)
           /\ \/ call.idx = FirstUnresolved - 1
              \/ CalledFunc.f.params[FirstUnresolved].name \in StringsOf(call.strs)

\* C21: in CallFunc the call into the target code comes after the validation
\* of every supplied argument: whenever CallFunc returns a length-mismatch or
\* a type-mismatch error, the target function was not entered and no result
\* of it is returned.
C21_NoCallOnMismatch ==
    (call.op = "CallFunc" /\ call.err \in {"len mismatch", "type mismatch"})
        => ~call.called /\ call.out = << >>

\* C21 witness: CallFunc rejected an argument after accepting the ones before
\* it, on an argument list whose length the function type accepts (so that
\* the call itself would have gone through).
C21_Witness ==
    /\ call.op = "CallFunc" /\ call.err = "type mismatch" /\ call.idx >= 1
    /\ ~call.variadic /\ Len(call.args) = Len(call.typ.in)
    /\ ~call.called

\* ------------------------------------------------- claims: failed loads
\* C22: a LoadImage that returns an error leaves the handle as it was: the
\* image list, the module table, the global-symbol table and the per-image
\* type caches are all unchanged (no image stays added beside a module table
\* computed for the old image list).
C22_FailedLoadChangesNothing ==
    [][ phase = "open" /\ (lastLoad' # lastLoad \/ images' # images)
        /\ lastLoad'.err \notin {"nil", "none"}
          => /\ images' = images
             /\ modules' = modules
             /\ globals' = globals
             /\ imageTypes' = imageTypes ]_vars

\* The build of the global table by thread t wrote into the table after
\* LoadImage had reset it: the store found da.globals nil.
WroteIntoInvalidated(t) == tret[t].err = "panic: assignment to entry in nil map"

\* C23: when LoadImage runs while a build of the global table is in progress,
\* the build never writes into a table LoadImage has already invalidated,
\* and once both have finished the global table is either unbuilt or holds
\* what a build made entirely after the image was added holds.
C23_BuildIsolatedFromLoad ==
    /\ \A t \in Threads : ~WroteIntoInvalidated(t)
    /\ (phase = "open" /\ Quiet /\ lastLoad.err = "nil" /\ ~globals.isnil)
          => DOMAIN globals.m = CompletedTable

\* ------------------------------------------------- claims: variadic requests
\* The outcomes in which the call did not return but aborted with a panic.
Aborted ==
    {"panic: reflect.FuncOf",
     "panic: reflect: Call with too few input arguments",
     "panic: reflect: Call with too many input arguments"}

\* The signature of the function last named cannot be variadic: it has no
\* input, or its last input type is not a slice.
NotVariadicCapable ==
    \/ Len(CalledSig.inTyps) = 0
    \/ TypeKind(CalledSig.inTyps[Len(CalledSig.inTyps)]) # "slice"

\* C24: with variadic=true and a function that has no input parameter, or
\* whose last input type is not a sequence type, FindFuncType, FindFunc and
\* CallFunc return an error value; none of them aborts while the function
\* type is built or the element type of the last input is taken.
C24_BadVariadicIsAnError ==
    (/\ call.op \in {"FindFuncType", "FindFunc", "CallFunc"}
     /\ call.variadic /\ SigDerived /\ NotVariadicCapable)
        => /\ call.err \notin Aborted
           /\ call.err # "nil"

====
